---- MODULE Spec2Model ----
(***************************************************************************)
(* Change-detection and notification-dispatch engine of aitu-web-app:      *)
(* the token batcher (get_batches), the batch loop (process_batch), the    *)
(* per-account pipeline (process_producing and its five produce_*          *)
(* sub-pipelines) and the snapshot service (DataService).                  *)
(***************************************************************************)
EXTENDS Integers, Sequences, FiniteSets, TLC

VARIABLES
    registry,   \* the token collection: documents (_id, device_token) in cursor order
    ext,        \* the LMS behind the provider, per token
    store,      \* the persisted snapshots, per token
    skip,       \* the offset owned by the caller of get_batches
    batch,      \* the batch handed to process_batch
    idx,        \* position of process_batch in the batch (0: not in a batch)
    pc,         \* what the poller does next
    user,       \* process_producing: <<the user returned by produce_user_info>>
    courses,    \* process_producing: the courses returned by produce_course
    alog,       \* calls, notifications and saves of the account pass under way
    acct,       \* the account pass under way, or the last one
    last,       \* the last sub-pipeline invocation
    gb,         \* the last get_batches call
    processed,  \* tokens of the accounts process_batch has taken up in this batch
    clean,      \* per token: its last pass had no failure and ext is unchanged since
    changes,    \* number of changes of the external state so far
    faults,     \* number of provider/store calls that have failed so far
    pollers,    \* the poller instances that run produce_course side by side (race runs)
    pass        \* the pass over the registry under way (coverage runs): who was placed,
                \* taken up, and registered all the time

vars == <<registry, ext, store, skip, batch, idx, pc, user, courses,
          alog, acct, last, gb, processed, clean, changes, faults, pollers, pass>>

(***************************************************************************)
(* Bounds of the model.                                                    *)
(***************************************************************************)
\* limit argument of get_batches (chosen by the caller)
Limit == 2
\* number of changes of the external LMS state in one behaviour
MaxChanges == 1
\* number of failing provider/store calls in one behaviour
MaxFaults == 2

\* registration and deletion requests of a run
MaxRequests == 3

(***************************************************************************)
(* Data model.                                                             *)
(***************************************************************************)
None == "none"

\* a snapshot that was never saved is <<>>, a saved one is <<value>>
Absent == <<>>

Some(v) == <<v>>

CourseIds == {1, 2}

CourseName(id) == IF id = 1 THEN "Algebra" ELSE "Physics"

\* Option<String> ordering of course names: None < Some("Algebra") < Some("Physics")
NameRank(n) == IF n = None THEN 0 ELSE IF n = "Algebra" THEN 1 ELSE 2

Course(id, past) == [id |-> id, fullname |-> CourseName(id), past |-> past]

Token(token, device_token) == [token |-> token, device_token |-> device_token]

User(name) == [userid |-> 7, name |-> name]

GradeItems(itemname, pct) == [itemname |-> itemname, percentageformatted |-> pct]

Grade(courseid, items) == [courseid |-> courseid, coursename |-> None, gradeitems |-> items]

GradeOverview(courseid, grade) == [courseid |-> courseid, course_name |-> None, grade |-> grade]

Deadline(name, due) == [name |-> name, timestart |-> due, coursename |-> None]

Event(ev, kind, title, body) ==
    [ev |-> ev, kind |-> kind, to |-> None, title |-> title, body |-> body]

\* Notification::new(device_token, title, body), tagged with the resource kind it is about
Notification(device_token, kind, title, body) ==
    [ev |-> "notify", kind |-> kind, to |-> device_token, title |-> title, body |-> body]

(***************************************************************************)
(* Sequence helpers.                                                       *)
(***************************************************************************)
Range(s) == {s[i] : i \in 1..Len(s)}

RECURSIVE Flatten(_)
Flatten(ss) == IF ss = <<>> THEN <<>> ELSE Head(ss) \o Flatten(Tail(ss))

(***************************************************************************)
(* Pure functions of the models crate: comparators, sorts, past filter.    *)
(***************************************************************************)
\* Course::delete_past_courses: drops the courses whose end date has passed
delete_past_courses(cs) == SelectSeq(cs, LAMBDA c : ~c.past)

\* the external courses whose id is absent from the stored list
compare_courses(external_courses, stored_courses) ==
    SelectSeq(external_courses,
              LAMBDA c : \A i \in 1..Len(stored_courses) : stored_courses[i].id # c.id)

\* all (courseid, item) entries of a grade list, in list order
GradeEntries(grades) ==
    Flatten([i \in 1..Len(grades) |->
               [j \in 1..Len(grades[i].gradeitems) |->
                  [courseid |-> grades[i].courseid, item |-> grades[i].gradeitems[j]]]])

\* placeholder standing for "no stored item" in the pair returned for a new grade item
NoItem(itemname) == [itemname |-> itemname, percentageformatted |-> "-"]

\* the stored entries with the key (courseid, itemname) of entry x
SameKey(x, stored) ==
    SelectSeq(GradeEntries(stored),
              LAMBDA y : y.courseid = x.courseid /\ y.item.itemname = x.item.itemname)

\* pairs <<external item, stored item>> for every external item that is new or
\* whose percentageformatted differs from the stored item with the same key
compare_grades(external_grades, grades) ==
    LET E == GradeEntries(external_grades)
        Pair(x) == LET same == SameKey(x, grades)
                   IN IF same = <<>> THEN << <<x.item, NoItem(x.item.itemname)>> >>
                      ELSE IF same[1].item.percentageformatted # x.item.percentageformatted
                      THEN << <<x.item, same[1].item>> >>
                      ELSE <<>>
    IN Flatten([i \in 1..Len(E) |-> Pair(E[i])])

RECURSIVE InsertOverview(_, _)
InsertOverview(x, s) ==
    IF s = <<>> THEN <<x>>
    ELSE IF NameRank(x.course_name) < NameRank(Head(s).course_name) THEN <<x>> \o s
    ELSE <<Head(s)>> \o InsertOverview(x, Tail(s))

RECURSIVE sort_grades_overview(_)
\* stable sort by course name, ascending
sort_grades_overview(s) ==
    IF s = <<>> THEN <<>>
    ELSE InsertOverview(s[Len(s)], sort_grades_overview(SubSeq(s, 1, Len(s) - 1)))

\* the external overview rows with no stored row of the same courseid and grade
compare_grades_overview(external, stored) ==
    SelectSeq(external,
              LAMBDA r : \A i \in 1..Len(stored) :
                            ~(stored[i].courseid = r.courseid /\ stored[i].grade = r.grade))

RECURSIVE InsertDeadline(_, _)
InsertDeadline(x, s) ==
    IF s = <<>> THEN <<x>>
    ELSE IF x.timestart < Head(s).timestart THEN <<x>> \o s
    ELSE <<Head(s)>> \o InsertDeadline(x, Tail(s))

RECURSIVE sort_deadlines(_)
\* stable sort by due time, ascending
sort_deadlines(s) ==
    IF s = <<>> THEN <<>>
    ELSE InsertDeadline(s[Len(s)], sort_deadlines(SubSeq(s, 1, Len(s) - 1)))

\* the external deadlines that are not in the stored list
compare_deadlines(external, stored) ==
    SelectSeq(external, LAMBDA d : \A i \in 1..Len(stored) : stored[i] # d)

(***************************************************************************)
(* One invocation is threaded through a record m:                          *)
(*   st  the account's stored snapshots (user, courses, grades, overview,  *)
(*       deadlines), each Absent until it was saved once;                  *)
(*   log the calls, notifications and saves made so far;                   *)
(*   k   fault injection: the k-th provider/store call from here fails     *)
(*       (0: none fails);                                                  *)
(*   n   the number of provider/store calls made so far;                   *)
(*   ok, err, val: the Result so far (err is "DataIsEmpty" or "Error").    *)
(***************************************************************************)
Start(st, k) ==
    [st |-> st, log |-> <<>>, k |-> k, n |-> 0, ok |-> TRUE, err |-> "", val |-> None]

\* one awaited provider or repository call: fails if the injected fault hits it
Call(m) ==
    IF m.k = 1 THEN [m EXCEPT !.ok = FALSE, !.err = "Error", !.k = 0, !.n = @ + 1]
    ELSE [m EXCEPT !.k = IF @ = 0 THEN 0 ELSE @ - 1, !.n = @ + 1]

Emit(m, e) == [m EXCEPT !.log = Append(@, e)]

Return(m, v) == [m EXCEPT !.val = v]

\* a data_provider request for a resource of the given kind
Fetch(m, kind) == Call(Emit(m, Event("fetch", kind, "", <<>>)))

\* a data_provider request for a resource of one course (get_grades_by_course_id,
\* get_deadline_by_course_id)
FetchCourse(m, kind, course) == Call(Emit(m, Event("fetch", kind, "", <<course.id>>)))

\* repository find_*_by_token: a store error, DataIsEmpty for a missing snapshot, or the list
Find(m, kind) ==
    LET m1 == Call(Emit(m, Event("find", kind, "", <<>>)))
    IN IF ~m1.ok THEN m1
       ELSE IF m1.st[kind] = Absent THEN [m1 EXCEPT !.ok = FALSE, !.err = "DataIsEmpty"]
       ELSE Return(m1, m1.st[kind][1])

\* repository save_*: a store error, or the snapshot is replaced by v
Save(m, kind, v) ==
    LET m1 == Call(m)
    IN IF ~m1.ok THEN m1
       ELSE Emit([m1 EXCEPT !.st[kind] = Some(v)], Event("save", kind, "", <<>>))

(***************************************************************************)
(* DataService                                                             *)
(***************************************************************************)
get_user(m) == Find(m, "user")

get_courses(m) == Find(m, "courses")

get_grades(m) == Find(m, "grades")

get_grades_overview(m) == Find(m, "overview")

get_deadlines(m) == Find(m, "deadlines")

update_user(m, e) ==
    LET m0 == Emit(m, Event("update", "user", "", <<>>))
        m1 == Fetch(m0, "user")
        m2 == Save(m1, "user", e.user)
    IN IF ~m1.ok THEN m1
       ELSE IF ~m2.ok THEN m2
       ELSE Return(m2, e.user)

\* update_courses that fetches and does not save
update_courses_unsaved(m, e) ==
    LET m0 == Emit(m, Event("update", "courses", "", <<>>))
        m1 == Fetch(m0, "courses")
    IN IF ~m1.ok THEN m1 ELSE Return(m1, e.courses)

update_courses(m, e) ==
    LET m0 == Emit(m, Event("update", "courses", "", <<>>))
        m1 == Fetch(m0, "courses")
        m2 == Save(m1, "courses", e.courses)
    IN IF ~m1.ok THEN m1
       ELSE IF ~m2.ok THEN m2
       ELSE Return(m2, e.courses)

\* get_grades_by_course_id(..).usergrades with every grade tagged with the course name
TaggedGrades(e, course) ==
    [i \in 1..Len(e.grades[course.id]) |->
        [e.grades[course.id][i] EXCEPT !.coursename = course.fullname]]

RECURSIVE fetch_grades_from(_, _, _, _)
fetch_grades_from(m, e, cs, grades) ==
    IF cs = <<>> THEN Return(m, grades)
    ELSE LET m1 == FetchCourse(m, "grades", Head(cs))
         IN IF ~m1.ok THEN m1
            ELSE fetch_grades_from(m1, e, Tail(cs), grades \o TaggedGrades(e, Head(cs)))

fetch_grades(m, e, cs) == fetch_grades_from(m, e, cs, <<>>)

update_grades(m, e, cs) ==
    LET m0 == Emit(m, Event("update", "grades", "", <<>>))
        m1 == fetch_grades(m0, e, cs)
    IN IF ~m1.ok THEN m1
       ELSE Save(m1, "grades", m1.val)

\* the first course of cs with the row's courseid names the row
AnnotateOverview(row, cs) ==
    LET same == SelectSeq(cs, LAMBDA c : c.id = row.courseid)
    IN IF same = <<>> THEN row ELSE [row EXCEPT !.course_name = same[1].fullname]

fetch_grades_overview(m, e, cs) ==
    LET m1 == Fetch(m, "overview")
        rows == [i \in 1..Len(e.overview) |-> AnnotateOverview(e.overview[i], cs)]
    IN IF ~m1.ok THEN m1
       ELSE Return(m1, [grades |-> sort_grades_overview(rows)])

update_grades_overview(m, e, cs) ==
    LET m0 == Emit(m, Event("update", "overview", "", <<>>))
        m1 == fetch_grades_overview(m0, e, cs)
    IN IF ~m1.ok THEN m1
       ELSE Save(m1, "overview", m1.val.grades)

\* get_deadline_by_course_id(..).events with every deadline tagged with the course name
TaggedDeadlines(e, course) ==
    [i \in 1..Len(e.deadlines[course.id]) |->
        [e.deadlines[course.id][i] EXCEPT !.coursename = course.fullname]]

RECURSIVE fetch_deadlines_from(_, _, _, _)
fetch_deadlines_from(m, e, cs, deadlines) ==
    IF cs = <<>> THEN Return(m, sort_deadlines(deadlines))
    ELSE LET m1 == FetchCourse(m, "deadlines", Head(cs))
         IN IF ~m1.ok THEN m1
            ELSE fetch_deadlines_from(m1, e, Tail(cs),
                                      deadlines \o TaggedDeadlines(e, Head(cs)))

fetch_deadlines(m, e, cs) == fetch_deadlines_from(m, e, cs, <<>>)

update_deadlines(m, e, cs) ==
    LET m0 == Emit(m, Event("update", "deadlines", "", <<>>))
        m1 == fetch_deadlines(m0, e, cs)
    IN IF ~m1.ok THEN m1
       ELSE Save(m1, "deadlines", m1.val)

\* fetch_and_update_data without the overview
fetch_and_update_data_no_overview(m, e) ==
    LET m1 == update_user(m, e)
        m2 == update_courses(m1, e)
        cs == m2.val
        m3 == update_grades(m2, e, cs)
        m5 == update_deadlines(m3, e, cs)
    IN IF ~m1.ok THEN m1
       ELSE IF ~m2.ok THEN m2
       ELSE IF ~m3.ok THEN m3
       ELSE m5


fetch_and_update_data(m, e) ==
    LET m1 == update_user(m, e)
        m2 == update_courses(m1, e)
        cs == m2.val
        m3 == update_grades(m2, e, cs)
        m4 == update_grades_overview(m3, e, cs)
        m5 == update_deadlines(m4, e, cs)
    IN IF ~m1.ok THEN m1
       ELSE IF ~m2.ok THEN m2
       ELSE IF ~m3.ok THEN m3
       ELSE IF ~m4.ok THEN m4
       ELSE m5

(***************************************************************************)
(* ProducerService: the five sub-pipelines                                 *)
(***************************************************************************)
\* producer.produce_notification for each element of a list, in order
RECURSIVE NotifyAll(_, _)
NotifyAll(m, notifications) ==
    IF notifications = <<>> THEN m
    ELSE NotifyAll(Emit(m, Head(notifications)), Tail(notifications))

produce_user_info(m, e, device_token) ==
    LET m0 == Emit(m, Event("call", "user", "", <<>>))
        m1 == Fetch(m0, "user")
        external_user == e.user
        m2 == get_user(m1)
        stored == m2.val
        m3 == Emit(m2, Notification(device_token, "user", "New user info",
                                    <<external_user.name>>))
        m4 == update_user(m3, e)
    IN IF ~m1.ok THEN m1
       ELSE IF ~m2.ok THEN m2
       ELSE IF stored = external_user THEN Return(m2, external_user)
       ELSE IF ~m4.ok THEN m4
       ELSE Return(m4, external_user)

\* produce_course with the arguments of compare_courses exchanged
produce_course_swapped(m, e, device_token) ==
    LET m0 == Emit(m, Event("call", "courses", "", <<>>))
        m1 == Fetch(m0, "courses")
        external_courses == e.courses
        m2 == get_courses(m1)
        new_courses == compare_courses(m2.val, external_courses)
        flag == new_courses # <<>>
        m3 == NotifyAll(m2, [i \in 1..Len(new_courses) |->
                  Notification(device_token, "courses", "New course",
                               <<new_courses[i].fullname>>)])
        m4 == IF flag THEN update_courses(m3, e) ELSE m3
    IN IF ~m1.ok THEN m1
       ELSE IF ~m2.ok THEN m2
       ELSE IF ~m4.ok THEN m4
       ELSE Return(m4, external_courses)


produce_course(m, e, device_token) ==
    LET m0 == Emit(m, Event("call", "courses", "", <<>>))
        m1 == Fetch(m0, "courses")
        external_courses == e.courses
        m2 == get_courses(m1)
        new_courses == compare_courses(external_courses, m2.val)
        flag == new_courses # <<>>
        m3 == NotifyAll(m2, [i \in 1..Len(new_courses) |->
                  Notification(device_token, "courses", "New course",
                               <<new_courses[i].fullname>>)])
        m4 == IF flag THEN update_courses(m3, e) ELSE m3
    IN IF ~m1.ok THEN m1
       ELSE IF ~m2.ok THEN m2
       ELSE IF ~m4.ok THEN m4
       ELSE Return(m4, external_courses)

\* body of a grade notification: "New grade | {item}\n{old} -> {new}"
GradeBody(new_grade) ==
    <<"New grade | ", new_grade[1].itemname, "\n",
      new_grade[2].percentageformatted, " -> ", new_grade[1].percentageformatted>>

\* lines 246-256: one update_grades per pair (external grade, stored grade) of the
\* same course whose item counts differ; the first failing one aborts
RECURSIVE ResyncTimes(_, _, _, _)
ResyncTimes(m, e, cs, n) ==
    IF n = 0 THEN m
    ELSE LET m1 == update_grades(m, e, cs)
         IN IF ~m1.ok THEN m1 ELSE ResyncTimes(m1, e, cs, n - 1)

CountMismatches(external_grades, grades) ==
    Cardinality({p \in (1..Len(external_grades)) \X (1..Len(grades)) :
                   /\ external_grades[p[1]].courseid = grades[p[2]].courseid
                   /\ Len(external_grades[p[1]].gradeitems) # Len(grades[p[2]].gradeitems)})

\* lines 233-274: the loop over the courses; val is the flag
RECURSIVE produce_grade_loop(_, _, _, _, _, _)
produce_grade_loop(m, e, device_token, cs, rest, flag) ==
    IF rest = <<>> THEN Return(m, flag)
    ELSE LET course == Head(rest)
             m1 == FetchCourse(m, "grades", course)
             external_grades == TaggedGrades(e, course)
             m2 == get_grades(m1)
             grades == m2.val
             m3 == ResyncTimes(m2, e, cs, CountMismatches(external_grades, grades))
             new_grades == compare_grades(external_grades, grades)
             m4 == NotifyAll(m3, [i \in 1..Len(new_grades) |->
                       Notification(device_token, "grades", course.fullname,
                                    GradeBody(new_grades[i]))])
         IN IF ~m1.ok THEN m1
            ELSE IF ~m2.ok THEN m2
            ELSE IF ~m3.ok THEN m3
            ELSE produce_grade_loop(m4, e, device_token, cs, Tail(rest),
                                    flag \/ new_grades # <<>>)

produce_grade(m, e, device_token, cs) ==
    LET m0 == Emit(m, Event("call", "grades", "", <<>>))
        m1 == get_grades(m0)
        past_grades == m1.val
        all_courses_in_grades ==
            \A i \in 1..Len(cs) : \E j \in 1..Len(past_grades) :
                past_grades[j].courseid = cs[i].id
        m2 == IF all_courses_in_grades THEN m1 ELSE update_grades(m1, e, cs)
        m3 == produce_grade_loop(m2, e, device_token, cs, cs, FALSE)
        m4 == IF m3.val THEN update_grades(m3, e, cs) ELSE m3
    IN IF ~m1.ok THEN m1
       ELSE IF ~m2.ok THEN m2
       ELSE IF ~m3.ok THEN m3
       ELSE IF ~m4.ok THEN m4
       ELSE Return(m4, None)

\* produce_grade_overview comparing the lists row by row as they come
produce_grade_overview_by_position(m, e, device_token, cs) ==
    LET m0 == Emit(m, Event("call", "overview", "", <<>>))
        m1 == Fetch(m0, "overview")
        external == [i \in 1..Len(e.overview) |-> AnnotateOverview(e.overview[i], cs)]
        m2 == get_grades_overview(m1)
        grades_overview == m2.val
        new_external_grades ==
            SelectSeq(external,
                      LAMBDA r : \E i \in 1..Len(external) :
                          /\ external[i] = r
                          /\ \/ i > Len(grades_overview)
                             \/ grades_overview[i].courseid # r.courseid
                             \/ grades_overview[i].grade # r.grade)
        flag == new_external_grades # <<>>
        m3 == NotifyAll(m2, [i \in 1..Len(new_external_grades) |->
                  Notification(device_token, "overview",
                               IF new_external_grades[i].course_name = None THEN "-"
                               ELSE new_external_grades[i].course_name,
                               <<"New course total grade | ", new_external_grades[i].grade>>)])
        m4 == IF flag THEN update_grades_overview(m3, e, cs) ELSE m3
    IN IF ~m1.ok THEN m1
       ELSE IF ~m2.ok THEN m2
       ELSE IF ~m4.ok THEN m4
       ELSE Return(m4, None)

produce_grade_overview(m, e, device_token, cs) ==
    LET m0 == Emit(m, Event("call", "overview", "", <<>>))
        m1 == fetch_grades_overview(m0, e, cs)
        external_grades_overview == m1.val
        m2 == get_grades_overview(m1)
        grades_overview == sort_grades_overview(m2.val)
        new_external_grades ==
            compare_grades_overview(external_grades_overview.grades, grades_overview)
        flag == new_external_grades # <<>>
        m3 == NotifyAll(m2, [i \in 1..Len(new_external_grades) |->
                  Notification(device_token, "overview",
                               IF new_external_grades[i].course_name = None THEN "-"
                               ELSE new_external_grades[i].course_name,
                               <<"New course total grade | ", new_external_grades[i].grade>>)])
        m4 == IF flag THEN update_grades_overview(m3, e, cs) ELSE m3
    IN IF ~m1.ok THEN m1
       ELSE IF ~m2.ok THEN m2
       ELSE IF ~m4.ok THEN m4
       ELSE Return(m4, None)

\* the deadline loop whose flag tells of the last course only
RECURSIVE produce_deadline_loop_last_flag(_, _, _, _, _)
produce_deadline_loop_last_flag(m, e, device_token, rest, flag) ==
    IF rest = <<>> THEN Return(m, flag)
    ELSE LET course == Head(rest)
             m1 == get_deadlines(m)
             empty == ~m1.ok /\ m1.err = "DataIsEmpty"
             deadlines == IF empty THEN <<>> ELSE m1.val
             m2 == FetchCourse([m1 EXCEPT !.ok = TRUE, !.err = ""], "deadlines", course)
             external_deadlines == TaggedDeadlines(e, course)
             sorted_deadlines == sort_deadlines(external_deadlines)
             new_deadlines == compare_deadlines(sorted_deadlines, deadlines)
             m3 == NotifyAll(m2, [i \in 1..Len(new_deadlines) |->
                       Notification(device_token, "deadlines", "New deadline",
                                    <<new_deadlines[i].name, new_deadlines[i].coursename>>)])
         IN IF ~m1.ok /\ ~empty THEN m1
            ELSE IF ~m2.ok THEN m2
            ELSE IF external_deadlines = <<>>
            THEN produce_deadline_loop_last_flag(m2, e, device_token, Tail(rest), flag)
            ELSE produce_deadline_loop_last_flag(m3, e, device_token, Tail(rest),
                                                 new_deadlines # <<>>)

\* lines 166-204: the loop over the courses; val is the flag
RECURSIVE produce_deadline_loop(_, _, _, _, _)
produce_deadline_loop(m, e, device_token, rest, flag) ==
    IF rest = <<>> THEN Return(m, flag)
    ELSE LET course == Head(rest)
             m1 == get_deadlines(m)
             empty == ~m1.ok /\ m1.err = "DataIsEmpty"
             deadlines == IF empty THEN <<>> ELSE m1.val
             m2 == FetchCourse([m1 EXCEPT !.ok = TRUE, !.err = ""], "deadlines", course)
             external_deadlines == TaggedDeadlines(e, course)
             sorted_deadlines == sort_deadlines(external_deadlines)
             new_deadlines == compare_deadlines(sorted_deadlines, deadlines)
             m3 == NotifyAll(m2, [i \in 1..Len(new_deadlines) |->
                       Notification(device_token, "deadlines", "New deadline",
                                    <<new_deadlines[i].name, new_deadlines[i].coursename>>)])
         IN IF ~m1.ok /\ ~empty THEN m1
            ELSE IF ~m2.ok THEN m2
            ELSE IF external_deadlines = <<>>
            THEN produce_deadline_loop(m2, e, device_token, Tail(rest), flag)
            ELSE produce_deadline_loop(m3, e, device_token, Tail(rest),
                                       flag \/ new_deadlines # <<>>)

\* produce_deadline that overwrites the stored deadlines whatever the flag
produce_deadline_always_updates(m, e, device_token, cs) ==
    LET m0 == Emit(m, Event("call", "deadlines", "", <<>>))
        m1 == produce_deadline_loop(m0, e, device_token, cs, FALSE)
        m2 == update_deadlines(m1, e, cs)
    IN IF ~m1.ok THEN m1
       ELSE IF ~m2.ok THEN m2
       ELSE Return(m2, None)

produce_deadline(m, e, device_token, cs) ==
    LET m0 == Emit(m, Event("call", "deadlines", "", <<>>))
        m1 == produce_deadline_loop(m0, e, device_token, cs, FALSE)
        m2 == IF m1.val THEN update_deadlines(m1, e, cs) ELSE m1
    IN IF ~m1.ok THEN m1
       ELSE IF ~m2.ok THEN m2
       ELSE Return(m2, None)

\* register_user without find_token
register_user_no_find(m, e, accepted, registered) ==
    LET c1 == Call(m)
        m1 == IF c1.ok /\ ~accepted THEN [c1 EXCEPT !.ok = FALSE, !.err = "InvalidToken"]
              ELSE c1
        m2a == Fetch(m1, "user")
        m2b == Fetch(m2a, "courses")
        cs == e.courses
        m3 == fetch_grades(m2b, e, cs)
        m4 == fetch_deadlines(m3, e, cs)
        m5 == fetch_grades_overview(m4, e, cs)
        c6 == Call(m5)
        m6 == IF c6.ok THEN Emit(c6, Event("save", "tokens", "", <<>>)) ELSE c6
        m7 == Save(m6, "user", e.user)
        m8 == Save(m7, "courses", cs)
        m9 == Save(m8, "grades", m3.val)
        m10 == Save(m9, "overview", m5.val.grades)
        m11 == Save(m10, "deadlines", m4.val)
    IN IF ~m1.ok THEN m1
       ELSE IF ~m2a.ok THEN m2a ELSE IF ~m2b.ok THEN m2b ELSE IF ~m3.ok THEN m3
       ELSE IF ~m4.ok THEN m4 ELSE IF ~m5.ok THEN m5 ELSE IF ~m6.ok THEN m6
       ELSE IF ~m7.ok THEN m7 ELSE IF ~m8.ok THEN m8 ELSE IF ~m9.ok THEN m9
       ELSE IF ~m10.ok THEN m10 ELSE m11

\* an awaited call that was answered with the error err
Refuse(m, err) == [m EXCEPT !.ok = FALSE, !.err = err]

\* register_user: valid_token and find_token, the initial full fetch, then the six
\* saves. accepted: the provider accepts the token; registered: the registry holds it
register_user(m, e, accepted, registered) ==
    LET c1 == Call(m)
        m1 == IF c1.ok /\ ~accepted THEN Refuse(c1, "InvalidToken") ELSE c1
        c2 == Call(m1)
        m2 == IF c2.ok /\ registered THEN Refuse(c2, "AccountAlreadyExists") ELSE c2
        m2a == Fetch(m2, "user")
        m2b == Fetch(m2a, "courses")
        cs == e.courses
        m3 == fetch_grades(m2b, e, cs)
        grades == m3.val
        m4 == fetch_deadlines(m3, e, cs)
        deadlines == m4.val
        m5 == fetch_grades_overview(m4, e, cs)
        grades_overview == m5.val
        c6 == Call(m5)
        m6 == IF c6.ok THEN Emit(c6, Event("save", "tokens", "", <<>>)) ELSE c6
        m7 == Save(m6, "user", e.user)
        m8 == Save(m7, "courses", cs)
        m9 == Save(m8, "grades", grades)
        m10 == Save(m9, "overview", grades_overview.grades)
        m11 == Save(m10, "deadlines", deadlines)
    IN IF ~m1.ok THEN m1 ELSE IF ~m2.ok THEN m2
       ELSE IF ~m2a.ok THEN m2a ELSE IF ~m2b.ok THEN m2b ELSE IF ~m3.ok THEN m3
       ELSE IF ~m4.ok THEN m4 ELSE IF ~m5.ok THEN m5 ELSE IF ~m6.ok THEN m6
       ELSE IF ~m7.ok THEN m7 ELSE IF ~m8.ok THEN m8 ELSE IF ~m9.ok THEN m9
       ELSE IF ~m10.ok THEN m10 ELSE m11

(***************************************************************************)
(* The external worlds and the registered accounts of the model.           *)
(***************************************************************************)
A1 == Token("t1", "d1")
A2 == Token("t2", None)
A3 == Token("t3", "d3")

Tokens == {"t1", "t2", "t3"}

Registries == {<<A1, A2, A3>>, <<A2, A1, A3>>}

a50 == GradeItems("a", "50%")
a75 == GradeItems("a", "75%")
b50 == GradeItems("b", "50%")

UserNames == {"n1", "n2"}

CourseLists ==
    {<<>>, <<Course(1, FALSE)>>, <<Course(1, FALSE), Course(2, TRUE)>>,
     <<Course(1, FALSE), Course(2, FALSE)>>}

GradeLists(c) ==
    IF c = 1
    THEN {<<>>, <<Grade(1, <<a50>>)>>, <<Grade(1, <<a50, b50>>)>>, <<Grade(1, <<a75, b50>>)>>}
    ELSE {<<>>, <<Grade(2, <<a50>>)>>}

OverviewLists ==
    {<<>>, <<GradeOverview(1, "A")>>, <<GradeOverview(1, "B")>>,
     <<GradeOverview(2, "B"), GradeOverview(1, "A")>>}

DeadlineLists(c) ==
    IF c = 1
    THEN {<<>>, <<Deadline("x", 10)>>, <<Deadline("y", 20), Deadline("x", 10)>>}
    ELSE {<<>>, <<Deadline("z", 5)>>}

World(name, cs, g1, g2, ov, d1, d2) ==
    [user |-> User(name), courses |-> cs,
     grades |-> [c \in CourseIds |-> IF c = 1 THEN g1 ELSE g2],
     overview |-> ov,
     deadlines |-> [c \in CourseIds |-> IF c = 1 THEN d1 ELSE d2]]

\* nothing yet: a fresh LMS account
EmptyWorld == World("n1", <<>>, <<>>, <<>>, <<>>, <<>>, <<>>)

\* one course with two grade items, one overview row and one deadline
OneCourseWorld ==
    World("n1", <<Course(1, FALSE)>>, <<Grade(1, <<a50, b50>>)>>, <<>>,
          <<GradeOverview(1, "A")>>, <<Deadline("x", 10)>>, <<>>)

\* two courses, the second one past and without any grade
TwoCourseWorld ==
    World("n1", <<Course(1, FALSE), Course(2, TRUE)>>, <<Grade(1, <<a50, b50>>)>>, <<>>,
          <<GradeOverview(2, "B"), GradeOverview(1, "A")>>,
          <<Deadline("y", 20), Deadline("x", 10)>>, <<Deadline("z", 5)>>)

Seeds == {EmptyWorld, OneCourseWorld, TwoCourseWorld}

\* the worlds that differ from w in one resource
Neighbours(w) ==
    ({[w EXCEPT !.user = User(n)] : n \in UserNames}
     \cup {[w EXCEPT !.courses = cs] : cs \in CourseLists}
     \cup {[w EXCEPT !.grades[c] = g] : <<c, g>> \in
              UNION {{<<c, g>> : g \in GradeLists(c)} : c \in CourseIds}}
     \cup {[w EXCEPT !.overview = ov] : ov \in OverviewLists}
     \cup {[w EXCEPT !.deadlines[c] = d] : <<c, d>> \in
              UNION {{<<c, d>> : d \in DeadlineLists(c)} : c \in CourseIds}})
    \ {w}

NoSnapshot ==
    [user |-> Absent, courses |-> Absent, grades |-> Absent, overview |-> Absent,
     deadlines |-> Absent]

\* the snapshots of an account registered when the LMS was in world w
Registered(w) == register_user(Start(NoSnapshot, 0), w, TRUE, FALSE).st

(***************************************************************************)
(* State machine.                                                          *)
(***************************************************************************)
Kinds == {"user", "courses", "grades", "overview", "deadlines"}

Stages == Kinds \cup {"resync"}

NoResults == [k \in Stages |-> "none"]

\* the stored lists are all empty and the stored user is the external one
EmptyBaseline(st, e) ==
    /\ st.user = Some(e.user)
    /\ \A k \in {"courses", "grades", "overview", "deadlines"} : st[k] = Some(<<>>)

\* no pass over the registry is followed
NoPass == [on |-> FALSE, complete |-> FALSE, stayed |-> {}, placed |-> <<>>, taken |-> <<>>]

TokensOf(reg) == [i \in 1..Len(reg) |-> reg[i].token]

\* a pass that starts now: everybody in the registry is registered so far
NewPass(reg) ==
    [on |-> TRUE, complete |-> FALSE, stayed |-> Range(TokensOf(reg)), placed |-> <<>>,
     taken |-> <<>>]

\* get_batches has returned r: the first call after a reset starts a new pass, the
\* accounts of the batch are placed, and the call that resets the offset completes
\* the pass
Placed(p, reg, r) ==
    IF ~p.on THEN p
    ELSE LET p0 == IF p.complete THEN NewPass(reg) ELSE p
         IN [p0 EXCEPT !.placed = @ \o TokensOf(r.batch),
                       !.complete = (r.ret = "ok" /\ ~r.has_documents)]

\* process_batch takes up the account t
TakenUp(p, starts, t) ==
    IF p.on /\ starts THEN [p EXCEPT !.taken = Append(@, t)] ELSE p

\* the account t was deleted
Left(p, ok, t) ==
    IF p.on /\ ok THEN [p EXCEPT !.stayed = @ \ {t}] ELSE p

NoAcct ==
    [token |-> None, device_token |-> None, done |-> TRUE, dirty |-> FALSE,
     clean0 |-> FALSE, empty0 |-> FALSE, res |-> NoResults]

NoLast == [op |-> None, token |-> None, ok |-> TRUE, err |-> "", pre |-> NoSnapshot,
           reg |-> <<>>, e |-> EmptyWorld, cs |-> <<>>, log |-> <<>>]

NoGb == [seq |-> 0, ret |-> None, has_documents |-> FALSE, placed |-> 0, skip0 |-> 0,
         process_batch |-> "none"]

\* every account was registered when the LMS was in world p[1], and it is in p[2] now
InitWith(rs, ps) ==
    /\ registry \in rs
    /\ \E p \in ps :
          /\ ext = [t \in Tokens |-> p[2]]
          /\ store = [t \in Tokens |-> Registered(p[1])]
    /\ skip = 0
    /\ batch = <<>>
    /\ idx = 0
    /\ pc = "idle"
    /\ user = <<>>
    /\ courses = <<>>
    /\ alog = <<>>
    /\ acct = NoAcct
    /\ last = NoLast
    /\ gb = NoGb
    /\ processed = <<>>
    /\ clean = [t \in Tokens |-> FALSE]
    /\ changes = 0
    /\ faults = 0
    /\ pollers = <<>>
    /\ pass = NoPass

\* three registered accounts; the LMS may have moved from the world of the
\* registration to any other seed world since
Init == InitWith(Registries, Seeds \X Seeds)

\* one registered account, with or without device token, still in the world of its
\* registration
InitChange ==
    InitWith({<<A1>>, <<A2>>}, {<<EmptyWorld, EmptyWorld>>, <<TwoCourseWorld, TwoCourseWorld>>})

Min(a, b) == IF a < b THEN a ELSE b

\* find_all_device_tokens(limit, skip): the documents the cursor will yield
Page(reg, limit, offset) == SubSeq(reg, offset + 1, Min(offset + limit, Len(reg)))

\* get_batches without the reset of the offset
get_batches_no_reset(reg, limit, offset, f) ==
    LET page == Page(reg, limit, offset)
        read == IF f = 0 THEN Len(page) ELSE IF f = 1 THEN 0 ELSE f - 2
        has_documents == read > 0
    IN IF f # 0
       THEN [ret |-> "err", skip |-> offset + read, batch |-> <<>>,
             has_documents |-> has_documents, placed |-> read, process_batch |-> FALSE]
       ELSE [ret |-> "ok", skip |-> offset + read, batch |-> page,
             has_documents |-> has_documents, placed |-> read,
             process_batch |-> has_documents]

\* get_batches up to the call of process_batch. The cursor makes one call for
\* find_all_tokens and one try_next per document plus the one that returns None;
\* fault f > 0 makes the f-th of them fail.
get_batches(reg, limit, offset, f) ==
    LET page == Page(reg, limit, offset)
        read == IF f = 0 THEN Len(page) ELSE IF f = 1 THEN 0 ELSE f - 2
        has_documents == read > 0
    IN IF f # 0
       THEN [ret |-> "err", skip |-> offset + read, batch |-> <<>>,
             has_documents |-> has_documents, placed |-> read, process_batch |-> FALSE]
       ELSE IF ~has_documents
       THEN [ret |-> "ok", skip |-> 0, batch |-> <<>>,
             has_documents |-> FALSE, placed |-> 0, process_batch |-> FALSE]
       ELSE [ret |-> "ok", skip |-> offset + read, batch |-> page,
             has_documents |-> TRUE, placed |-> read, process_batch |-> TRUE]

\* process_producing going on with the courses after produce_user_info failed
process_producing_goes_on(stage, ok) ==
    CASE stage = "user" -> "course"
      [] stage = "courses" -> IF ok THEN "grade" ELSE "return"
      [] stage = "grades" -> "overview"
      [] stage = "overview" -> "deadline"
      [] stage = "deadlines" -> "return"

\* process_producing returning the error of produce_grade
process_producing_returns(stage, ok) ==
    CASE stage = "user" -> IF ok THEN "course" ELSE "return"
      [] stage = "courses" -> IF ok THEN "grade" ELSE "return"
      [] stage = "grades" -> IF ok THEN "overview" ELSE "return"
      [] stage = "overview" -> "deadline"
      [] stage = "deadlines" -> "return"

\* process_producing: where it goes after a sub-pipeline returned
\* process_producing that runs the deadlines before the grade overview
process_producing_deadline_first(stage, ok) ==
    CASE stage = "user" -> IF ok THEN "course" ELSE "return"
      [] stage = "courses" -> IF ok THEN "grade" ELSE "return"
      [] stage = "grades" -> "deadline"
      [] stage = "deadlines" -> "overview"
      [] stage = "overview" -> "return"

process_producing(stage, ok) ==
    CASE stage = "user" -> IF ok THEN "course" ELSE "return"
      [] stage = "courses" -> IF ok THEN "grade" ELSE "return"
      [] stage = "grades" -> "overview"
      [] stage = "overview" -> "deadline"
      [] stage = "deadlines" -> "return"

\* process_batch: after process_producing or fetch_and_update_data returned, go on
\* with the next account or leave the loop with the error (the ? operator)
process_batch(stage, ok) ==
    IF stage = "resync" /\ ~ok THEN "abort" ELSE "next"

\* where the poller is after the stage returned ok or not
Target(stage, ok) ==
    IF stage = "resync" THEN process_batch(stage, ok)
    ELSE IF process_producing(stage, ok) = "return" THEN process_batch(stage, TRUE)
    ELSE process_producing(stage, ok)

Ends(target) == target \in {"next", "abort"}

NoErr(res) == \A k \in Stages : res[k] # "err"

\* the bookkeeping shared by the steps of an account pass: t's snapshots become
\* m.st, the poller moves to the target
Step(op, stage, t, device_token, cs, f, m) ==
    LET target == Target(stage, m.ok)
        starts == stage \in {"user", "resync"}
        r == IF m.ok THEN "ok" ELSE "err"
        a0 == IF starts
              THEN [token |-> t, device_token |-> device_token, done |-> FALSE,
                    dirty |-> FALSE, clean0 |-> clean[t],
                    empty0 |-> EmptyBaseline(store[t], ext[t]), res |-> NoResults]
              ELSE acct
        a1 == [a0 EXCEPT !.res[stage] = r, !.done = Ends(target)]
    IN /\ store' = [store EXCEPT ![t] = m.st]
       /\ last' = [op |-> op, token |-> t, ok |-> m.ok, err |-> m.err, pre |-> store[t],
                   reg |-> registry, e |-> ext[t], cs |-> cs, log |-> m.log]
       /\ alog' = (IF starts THEN <<>> ELSE alog) \o m.log
       /\ acct' = a1
       /\ processed' = IF starts THEN Append(processed, t) ELSE processed
       /\ clean' = IF Ends(target)
                   THEN [clean EXCEPT ![t] = NoErr(a1.res) /\ ~a1.dirty]
                   ELSE clean
       /\ pc' = IF target = "next" THEN (IF idx < Len(batch) THEN "batch" ELSE "idle")
                ELSE IF target = "abort" THEN "idle"
                ELSE target
       /\ idx' = IF target = "next" THEN (IF idx < Len(batch) THEN idx + 1 ELSE 0)
                 ELSE IF target = "abort" THEN 0
                 ELSE idx
       /\ gb' = IF ~Ends(target) THEN gb
                ELSE IF target = "abort" THEN [gb EXCEPT !.process_batch = "err"]
                ELSE IF idx < Len(batch) THEN gb
                ELSE [gb EXCEPT !.process_batch = "ok"]
       /\ f # 0 => faults < MaxFaults
       /\ faults' = IF f # 0 THEN faults + 1 ELSE faults
       /\ pass' = TakenUp(pass, starts, t)
       /\ UNCHANGED <<registry, ext, skip, batch, changes, pollers>>

\* one call of get_batches by the scheduler, up to the call of process_batch
GetBatches ==
    /\ pc = "idle"
    /\ \E f \in 0..(Len(Page(registry, Limit, skip)) + 2) :
          LET r == get_batches(registry, Limit, skip, f)
          IN /\ skip' = r.skip
             /\ batch' = r.batch
             /\ idx' = IF r.process_batch THEN 1 ELSE 0
             /\ pc' = IF r.process_batch THEN "batch" ELSE "idle"
             /\ gb' = [seq |-> 1 - gb.seq, ret |-> r.ret,
                       has_documents |-> r.has_documents, placed |-> r.placed,
                       skip0 |-> skip,
                       process_batch |-> IF r.process_batch THEN "running" ELSE "none"]
             /\ processed' = <<>>
             /\ pass' = Placed(pass, registry, r)
             /\ f # 0 => faults < MaxFaults
             /\ faults' = IF f # 0 THEN faults + 1 ELSE faults
    /\ UNCHANGED <<registry, ext, store, user, courses, alog, acct, last, clean, changes,
                   pollers>>

\* process_batch takes up an account without device token
FetchAndUpdateData ==
    /\ pc = "batch"
    /\ batch[idx].device_token = None
    /\ LET t == batch[idx].token
       IN \E f \in 0..fetch_and_update_data(Start(store[t], 0), ext[t]).n :
             Step("fetch_and_update_data", "resync", t, None, <<>>, f,
                  fetch_and_update_data(Start(store[t], f), ext[t]))
    /\ UNCHANGED <<user, courses>>

\* process_batch takes up an account with a device token: process_producing starts
ProduceUserInfo ==
    /\ pc = "batch"
    /\ batch[idx].device_token # None
    /\ LET t == batch[idx].token
           d == batch[idx].device_token
       IN \E f \in 0..produce_user_info(Start(store[t], 0), ext[t], d).n :
             LET m == produce_user_info(Start(store[t], f), ext[t], d)
             IN /\ Step("produce_user_info", "user", t, d, <<>>, f, m)
                /\ user' = IF m.ok THEN <<m.val>> ELSE <<>>
    /\ courses' = <<>>

ProduceCourse ==
    /\ pc = "course"
    /\ LET t == batch[idx].token
           d == batch[idx].device_token
       IN \E f \in 0..produce_course(Start(store[t], 0), ext[t], d).n :
             LET m == produce_course(Start(store[t], f), ext[t], d)
             IN /\ Step("produce_course", "courses", t, d, <<>>, f, m)
                /\ courses' = IF m.ok THEN m.val ELSE <<>>
    /\ UNCHANGED user

ProduceGrade ==
    /\ pc = "grade"
    /\ LET t == batch[idx].token
           d == batch[idx].device_token
       IN \E f \in 0..produce_grade(Start(store[t], 0), ext[t], d, courses).n :
             Step("produce_grade", "grades", t, d, courses, f,
                  produce_grade(Start(store[t], f), ext[t], d, courses))
    /\ UNCHANGED <<user, courses>>

ProduceGradeOverview ==
    /\ pc = "overview"
    /\ LET t == batch[idx].token
           d == batch[idx].device_token
       IN \E f \in 0..produce_grade_overview(Start(store[t], 0), ext[t], d, courses).n :
             Step("produce_grade_overview", "overview", t, d, courses, f,
                  produce_grade_overview(Start(store[t], f), ext[t], d, courses))
    /\ UNCHANGED <<user, courses>>

\* Course::delete_past_courses, then produce_deadline
\* the deadline step without delete_past_courses
ProduceDeadlineUnfiltered ==
    /\ pc = "deadline"
    /\ LET t == batch[idx].token
           d == batch[idx].device_token
           cs == courses
       IN /\ \E f \in 0..produce_deadline(Start(store[t], 0), ext[t], d, cs).n :
                Step("produce_deadline", "deadlines", t, d, cs, f,
                     produce_deadline(Start(store[t], f), ext[t], d, cs))
          /\ courses' = cs
    /\ UNCHANGED user

ProduceDeadline ==
    /\ pc = "deadline"
    /\ LET t == batch[idx].token
           d == batch[idx].device_token
           cs == delete_past_courses(courses)
       IN /\ \E f \in 0..produce_deadline(Start(store[t], 0), ext[t], d, cs).n :
                Step("produce_deadline", "deadlines", t, d, cs, f,
                     produce_deadline(Start(store[t], f), ext[t], d, cs))
          /\ courses' = cs
    /\ UNCHANGED user

\* the LMS changes one resource of one account, or puts the account into one of the
\* seed worlds (a new term starts)
ExternalChange ==
    /\ changes < MaxChanges
    /\ \E i \in 1..Len(registry) :
       \E w \in (Neighbours(ext[registry[i].token]) \cup Seeds) \ {ext[registry[i].token]} :
          LET t == registry[i].token IN
          /\ ext' = [ext EXCEPT ![t] = w]
          /\ clean' = [clean EXCEPT ![t] = FALSE]
          /\ acct' = IF acct.token = t THEN [acct EXCEPT !.dirty = TRUE] ELSE acct
    /\ changes' = changes + 1
    /\ UNCHANGED <<registry, store, skip, batch, idx, pc, user, courses, alog, last, gb,
                   processed, faults, pollers, pass>>

\* the poller
Next ==
    \/ GetBatches
    \/ FetchAndUpdateData
    \/ ProduceUserInfo
    \/ ProduceCourse
    \/ ProduceGrade
    \/ ProduceGradeOverview
    \/ ProduceDeadline

\* the poller while the LMS does not change
Spec == Init /\ [][Next]_vars

\* the poller and the LMS
NextChange ==
    \/ GetBatches
    \/ FetchAndUpdateData
    \/ ProduceUserInfo
    \/ ProduceCourse
    \/ ProduceGrade
    \/ ProduceGradeOverview
    \/ ProduceDeadline
    \/ ExternalChange

SpecChange == InitChange /\ [][NextChange]_vars

\* the tokens the provider's valid_token accepts in the registration runs
Accepted == {"t1"}

\* the Token values the HTTP layer hands to register_user: the mobile app sends
\* its device token along
Applicants == {A1, A3}

\* the registry holds a document for the token t
InRegistry(reg, t) == \E i \in 1..Len(reg) : reg[i].token = t

\* the HTTP layer calls register_user; fault f > 0 makes its f-th call fail.
\* save_tokens appends the document to the registry
RegisterUser ==
    /\ changes < MaxRequests
    /\ \E tokens \in Applicants :
       LET t == tokens.token
       IN \E f \in 0..register_user(Start(store[t], 0), ext[t], TRUE, FALSE).n :
             LET m == register_user(Start(store[t], f), ext[t],
                                    t \in Accepted, InRegistry(registry, t))
             IN /\ f # 0 => (faults < MaxFaults /\ m.err = "Error")
                /\ faults' = IF f # 0 THEN faults + 1 ELSE faults
                /\ registry' = IF \E i \in 1..Len(m.log) :
                                      m.log[i].ev = "save" /\ m.log[i].kind = "tokens"
                               THEN Append(registry, tokens)
                               ELSE registry
                /\ store' = [store EXCEPT ![t] = m.st]
                /\ last' = [op |-> "register_user", token |-> t, ok |-> m.ok,
                            err |-> m.err, pre |-> store[t], reg |-> registry,
                            e |-> ext[t], cs |-> <<>>, log |-> m.log]
                /\ clean' = [clean EXCEPT ![t] = FALSE]
                /\ acct' = IF acct.token = t THEN [acct EXCEPT !.dirty = TRUE] ELSE acct
    /\ changes' = changes + 1
    /\ UNCHANGED <<ext, skip, batch, idx, pc, user, courses, alog, gb, processed, pollers,
                   pass>>

\* the registry without its i-th document
Without(reg, i) == SubSeq(reg, 1, i - 1) \o SubSeq(reg, i + 1, Len(reg))

\* delete_one_user: the repository deletes the account's document, or fails
DeleteOneUser ==
    /\ changes < MaxRequests
    /\ \E i \in 1..Len(registry) : \E f \in 0..1 :
          LET t == registry[i].token
              m == Call(Start(store[t], f))
          IN /\ f # 0 => faults < MaxFaults
             /\ faults' = IF f # 0 THEN faults + 1 ELSE faults
             /\ registry' = IF m.ok THEN Without(registry, i) ELSE registry
             /\ store' = IF m.ok THEN [store EXCEPT ![t] = NoSnapshot] ELSE store
             /\ last' = [op |-> "delete_one_user", token |-> t, ok |-> m.ok,
                         err |-> m.err, pre |-> store[t], reg |-> registry,
                         e |-> ext[t], cs |-> <<>>, log |-> m.log]
             /\ clean' = [clean EXCEPT ![t] = FALSE]
             /\ acct' = IF acct.token = t THEN [acct EXCEPT !.dirty = TRUE] ELSE acct
             /\ pass' = Left(pass, m.ok, t)
    /\ changes' = changes + 1
    /\ UNCHANGED <<ext, skip, batch, idx, pc, user, courses, alog, gb, processed, pollers>>

\* nobody is registered yet
InitReg ==
    /\ registry = <<>>
    /\ store = [t \in Tokens |-> NoSnapshot]
    /\ ext = [t \in Tokens |-> OneCourseWorld]
    /\ skip = 0
    /\ batch = <<>>
    /\ idx = 0
    /\ pc = "idle"
    /\ user = <<>>
    /\ courses = <<>>
    /\ alog = <<>>
    /\ acct = NoAcct
    /\ last = NoLast
    /\ gb = NoGb
    /\ processed = <<>>
    /\ clean = [t \in Tokens |-> FALSE]
    /\ changes = 0
    /\ faults = 0
    /\ pollers = <<>>
    /\ pass = NoPass

\* the poller and the registration endpoint
NextReg ==
    \/ RegisterUser
    \/ DeleteOneUser
    \/ GetBatches
    \/ ProduceUserInfo
    \/ ProduceCourse
    \/ ProduceGrade
    \/ ProduceGradeOverview
    \/ ProduceDeadline

SpecReg == InitReg /\ [][NextReg]_vars

\* three accounts that were registered before their first course appeared
InitLive == InitWith({<<A1, A2, A3>>}, {<<EmptyWorld, OneCourseWorld>>})

\* the scheduler calls get_batches again whenever the previous call has returned,
\* and every process_batch returns: each of its awaits completes, with Ok or Err
LiveSpec == InitLive /\ [][Next]_vars /\ WF_vars(GetBatches) /\ []<>(pc = "idle")

\* three accounts whose LMS lost or gained its only course since the registration
InitStale ==
    InitWith({<<A1, A2, A3>>},
             {<<OneCourseWorld, EmptyWorld>>, <<EmptyWorld, OneCourseWorld>>})

\* the poller under the scheduling of LiveSpec, started with stale snapshots
LiveStaleSpec == InitStale /\ [][Next]_vars /\ WF_vars(GetBatches) /\ []<>(pc = "idle")

\* two courses that are both under way, each with deadlines
OpenCoursesWorld ==
    World("n1", <<Course(1, FALSE), Course(2, FALSE)>>, <<Grade(1, <<a50, b50>>)>>, <<>>,
          <<GradeOverview(2, "B"), GradeOverview(1, "A")>>,
          <<Deadline("y", 20), Deadline("x", 10)>>, <<Deadline("z", 5)>>)

\* three accounts with two courses under way: registered before the courses appeared,
\* registered before deadline y of the first course was set, unchanged since the
\* registration, and registered before the second course lost its only deadline
InitDeadline ==
    InitWith({<<A1, A2, A3>>},
             {<<EmptyWorld, OpenCoursesWorld>>,
              <<[OpenCoursesWorld EXCEPT !.deadlines[1] = <<Deadline("x", 10)>>],
                OpenCoursesWorld>>,
              <<OpenCoursesWorld, OpenCoursesWorld>>,
              <<OpenCoursesWorld, [OpenCoursesWorld EXCEPT !.deadlines[2] = <<>>]>>,
              <<EmptyWorld, [OpenCoursesWorld EXCEPT !.deadlines[1] = <<>>]>>})

\* the poller on accounts with several courses under way
SpecDeadline == InitDeadline /\ [][Next]_vars

\* three registered accounts with nothing in the LMS; the pass over the registry is
\* followed from the first call of get_batches on, and no call fails (the failures
\* the runs may inject are used up)
InitCoverage ==
    /\ registry = <<A1, A2, A3>>
    /\ ext = [t \in Tokens |-> EmptyWorld]
    /\ store = [t \in Tokens |-> Registered(EmptyWorld)]
    /\ skip = 0
    /\ batch = <<>>
    /\ idx = 0
    /\ pc = "idle"
    /\ user = <<>>
    /\ courses = <<>>
    /\ alog = <<>>
    /\ acct = NoAcct
    /\ last = NoLast
    /\ gb = NoGb
    /\ processed = <<>>
    /\ clean = [t \in Tokens |-> FALSE]
    /\ changes = 0
    /\ faults = MaxFaults
    /\ pollers = <<>>
    /\ pass = [NewPass(<<>>) EXCEPT !.complete = TRUE]

\* the poller, and the endpoints that register and delete accounts between two calls
\* of get_batches
NextCoverage ==
    \/ Next
    \/ pc = "idle" /\ RegisterUser
    \/ pc = "idle" /\ DeleteOneUser

SpecCoverage == InitCoverage /\ [][NextCoverage]_vars

(***************************************************************************)
(* Several poller instances in produce_course for the same account. Each   *)
(* await of produce_course is a step of its own; nothing fails.            *)
(***************************************************************************)
\* the account the instances work on
RaceAccount == A1

IdlePoller == [pc |-> "idle", external_courses |-> <<>>, new_courses |-> <<>>]

\* line 138: data_provider.get_courses
RaceGetExternal(p) ==
    /\ pollers[p].pc = "idle"
    /\ pollers' = [pollers EXCEPT ![p] =
                      [pc |-> "stored", external_courses |-> ext[RaceAccount.token].courses,
                       new_courses |-> <<>>]]
    /\ UNCHANGED <<registry, ext, store, skip, batch, idx, pc, user, courses, alog, acct,
                   last, gb, processed, clean, changes, faults, pass>>

\* lines 139-140: data_service.get_courses and compare_courses
RaceGetStored(p) ==
    /\ pollers[p].pc = "stored"
    /\ LET m == get_courses(Start(store[RaceAccount.token], 0))
           new_courses == compare_courses(pollers[p].external_courses, m.val)
       IN pollers' = [pollers EXCEPT ![p].new_courses = new_courses,
                                     ![p].pc = IF new_courses # <<>> THEN "notify"
                                               ELSE "idle"]
    /\ UNCHANGED <<registry, ext, store, skip, batch, idx, pc, user, courses, alog, acct,
                   last, gb, processed, clean, changes, faults, pass>>

\* lines 142-151: one notification per new course
RaceNotify(p) ==
    /\ pollers[p].pc = "notify"
    /\ LET new_courses == pollers[p].new_courses
       IN alog' = alog \o [i \in 1..Len(new_courses) |->
                              Notification(RaceAccount.device_token, "courses", "New course",
                                           <<new_courses[i].fullname>>)]
    /\ pollers' = [pollers EXCEPT ![p].pc = "update"]
    /\ UNCHANGED <<registry, ext, store, skip, batch, idx, pc, user, courses, acct,
                   last, gb, processed, clean, changes, faults, pass>>

\* lines 153-155: data_service.update_courses
RaceUpdate(p) ==
    /\ pollers[p].pc = "update"
    /\ store' = [store EXCEPT ![RaceAccount.token] =
                    update_courses(Start(store[RaceAccount.token], 0),
                                   ext[RaceAccount.token]).st]
    /\ pollers' = [pollers EXCEPT ![p] = IdlePoller]
    /\ UNCHANGED <<registry, ext, skip, batch, idx, pc, user, courses, alog, acct,
                   last, gb, processed, clean, changes, faults, pass>>

\* one or two poller instances; the account was registered before the LMS listed
\* its present courses
InitRace ==
    /\ registry = <<RaceAccount>>
    /\ \E p \in {<<EmptyWorld, EmptyWorld>>, <<EmptyWorld, OneCourseWorld>>,
                 <<OneCourseWorld, TwoCourseWorld>>} :
          /\ ext = [t \in Tokens |-> p[2]]
          /\ store = [t \in Tokens |-> Registered(p[1])]
    /\ pollers \in {<<IdlePoller>>, <<IdlePoller, IdlePoller>>}
    /\ skip = 0
    /\ batch = <<>>
    /\ idx = 0
    /\ pc = "idle"
    /\ user = <<>>
    /\ courses = <<>>
    /\ alog = <<>>
    /\ acct = NoAcct
    /\ last = NoLast
    /\ gb = NoGb
    /\ processed = <<>>
    /\ clean = [t \in Tokens |-> FALSE]
    /\ changes = 0
    /\ faults = 0
    /\ pass = NoPass

NextRace ==
    \/ \E p \in 1..Len(pollers) : RaceGetExternal(p)
    \/ \E p \in 1..Len(pollers) : RaceGetStored(p)
    \/ \E p \in 1..Len(pollers) : RaceNotify(p)
    \/ \E p \in 1..Len(pollers) : RaceUpdate(p)
    \/ ExternalChange

SpecRace == InitRace /\ [][NextRace]_vars

(***************************************************************************)
(* Observations on the logs.                                               *)
(***************************************************************************)
Notifs(log) == SelectSeq(log, LAMBDA x : x.ev = "notify")

NotifsOf(log, kind) == SelectSeq(log, LAMBDA x : x.ev = "notify" /\ x.kind = kind)

Updates(log) == SelectSeq(log, LAMBDA x : x.ev = "update")

Saves(log) == SelectSeq(log, LAMBDA x : x.ev = "save")

CallsOf(log, kind) == SelectSeq(log, LAMBDA x : x.ev = "call" /\ x.kind = kind)

KindsOf(log) == [i \in 1..Len(log) |-> log[i].kind]

\* the external grades of the courses cs, tagged, in course order
ExternalGrades(e, cs) == Flatten([i \in 1..Len(cs) |-> TaggedGrades(e, cs[i])])

\* the external deadlines of the courses cs, tagged, in course order
ExternalDeadlines(e, cs) == Flatten([i \in 1..Len(cs) |-> TaggedDeadlines(e, cs[i])])

\* an account pass with device token has run all five sub-pipelines without failure
\* while the LMS did not change
QuietPass ==
    /\ acct.device_token # None
    /\ acct.done
    /\ ~acct.dirty
    /\ \A k \in Kinds : acct.res[k] = "ok"

(***************************************************************************)
(* C1. Idempotence: a pass over an account with device token that follows  *)
(* a completed pass, with no failure and no change of the external state,  *)
(* emits no notification and calls no update_*.                            *)
(***************************************************************************)
C1_IdempotentPass ==
    (QuietPass /\ acct.clean0) =>
        \A i \in 1..Len(alog) : alog[i].ev \notin {"notify", "update"}

(***************************************************************************)
(* C2. First pass over an empty baseline: one notification per external    *)
(* course, grade item, overview row and deadline, and afterwards the       *)
(* course, grade, overview and deadline snapshots hold the external data.  *)
(***************************************************************************)
C2_FirstPass ==
    (QuietPass /\ acct.empty0) =>
        LET e == ext[acct.token]
            st == store[acct.token]
            current == delete_past_courses(e.courses)
        IN /\ Len(NotifsOf(alog, "courses")) = Len(e.courses)
           /\ Len(NotifsOf(alog, "grades")) = Len(GradeEntries(ExternalGrades(e, e.courses)))
           /\ Len(NotifsOf(alog, "overview")) = Len(e.overview)
           /\ Len(NotifsOf(alog, "deadlines")) = Len(ExternalDeadlines(e, current))
           /\ st.courses = Some(e.courses)
           /\ st.grades = Some(ExternalGrades(e, e.courses))
           /\ Len(st.overview[1]) = Len(e.overview)
           /\ Len(st.deadlines[1]) = Len(ExternalDeadlines(e, current))

\* a grade notification for the tagged external entry x was sent by the last invocation
GradeNotified(x) ==
    \E i \in 1..Len(last.log) :
        /\ last.log[i].ev = "notify"
        /\ last.log[i].kind = "grades"
        /\ last.log[i].title = CourseName(x.courseid)
        /\ last.log[i].body[2] = x.item.itemname
        /\ last.log[i].body[6] = x.item.percentageformatted

\* the stored entries with the (course id, item name) of x
StoredMatches(stored, x) ==
    SelectSeq(GradeEntries(stored),
              LAMBDA y : y.courseid = x.courseid /\ y.item.itemname = x.item.itemname)

(***************************************************************************)
(* C3. Grade diff: produce_grade notifies an external grade item exactly   *)
(* when the stored grades hold no entry with its (course id, item name),   *)
(* or hold one whose percentageformatted differs.                          *)
(***************************************************************************)
C3_GradeDiff ==
    (last.op = "produce_grade" /\ last.ok) =>
        LET external == GradeEntries(ExternalGrades(last.e, last.cs))
            stored == last.pre.grades[1]
        IN \A i \in 1..Len(external) :
               LET x == external[i]
                   same == StoredMatches(stored, x)
               IN GradeNotified(x) <=>
                      \/ same = <<>>
                      \/ same[1].item.percentageformatted # x.item.percentageformatted

\* the external grades differ from the stored ones in the percentage of exactly one item
OneGradeChanged(stored, external) ==
    /\ Len(stored) = Len(external)
    /\ \A i \in 1..Len(stored) :
           /\ stored[i].courseid = external[i].courseid
           /\ stored[i].item.itemname = external[i].item.itemname
    /\ Cardinality({i \in 1..Len(stored) :
           stored[i].item.percentageformatted # external[i].item.percentageformatted}) = 1

(***************************************************************************)
(* C4. A grade whose percentage goes from A to B while nothing else        *)
(* changes yields exactly one notification of the pass, its body naming    *)
(* A before B, and the grades are persisted.                               *)
(***************************************************************************)
C4_GradeChange ==
    LET stored == GradeEntries(last.pre.grades[1])
        external == GradeEntries(ExternalGrades(last.e, last.cs))
    IN (/\ last.op = "produce_grade"
        /\ last.ok
        /\ OneGradeChanged(stored, external)) =>
           LET i == CHOOSE j \in 1..Len(stored) :
                        stored[j].item.percentageformatted # external[j].item.percentageformatted
               sent == Notifs(last.log)
           IN /\ Len(sent) = 1
              /\ sent[1].body[4] = stored[i].item.percentageformatted
              /\ sent[1].body[6] = external[i].item.percentageformatted
              /\ \E j \in 1..Len(last.log) :
                     last.log[j].ev = "save" /\ last.log[j].kind = "grades"

\* the ids of a list of courses
CourseIdsOf(cs) == {cs[i].id : i \in 1..Len(cs)}

\* how many "New course" notifications of the last invocation name the course c
CourseNotified(c) ==
    Len(SelectSeq(NotifsOf(last.log, "courses"),
                  LAMBDA x : x.title = "New course" /\ x.body = <<c.fullname>>))

(***************************************************************************)
(* C5. Course diff: produce_course sends one "New course" notification     *)
(* for each external course whose id is not stored, and none for any       *)
(* other course, stored courses that are no longer external included.      *)
(***************************************************************************)
C5_CourseDiff ==
    (last.op = "produce_course" /\ last.pre.courses # Absent) =>
        LET external == last.e.courses
            stored == last.pre.courses[1]
            new == SelectSeq(external, LAMBDA c : c.id \notin CourseIdsOf(stored))
            sent == NotifsOf(last.log, "courses")
        IN /\ Notifs(last.log) = sent
           /\ \A i \in 1..Len(sent) :
                  sent[i].to = acct.device_token /\ sent[i].title = "New course"
           /\ \A i \in 1..Len(external) :
                  external[i].id \in CourseIdsOf(stored) =>
                      CourseNotified(external[i]) = 0
           /\ \A i \in 1..Len(stored) :
                  stored[i].id \notin CourseIdsOf(external) =>
                      CourseNotified(stored[i]) = 0
           /\ Len(sent) <= Len(new)
           /\ last.ok =>
                  /\ Len(sent) = Len(new)
                  /\ \A i \in 1..Len(new) : CourseNotified(new[i]) = 1

\* a new course is notified while a stored course is passed over
C5_Witness ==
    /\ last.op = "produce_course"
    /\ last.ok
    /\ last.pre.courses # Absent
    /\ \E i \in 1..Len(last.e.courses) :
           /\ last.e.courses[i].id \notin CourseIdsOf(last.pre.courses[1])
           /\ CourseNotified(last.e.courses[i]) = 1
    /\ \E i \in 1..Len(last.e.courses) :
           /\ last.e.courses[i].id \in CourseIdsOf(last.pre.courses[1])
           /\ CourseNotified(last.e.courses[i]) = 0

\* the account of acct was the last one taken up and its pass is over
PassOver ==
    /\ acct.done
    /\ processed # <<>>
    /\ processed[Len(processed)] = acct.token

(***************************************************************************)
(* C6. Account-level abort without batch abort: after a failure of         *)
(* produce_user_info no other sub-pipeline of the account runs, after a    *)
(* failure of produce_course no grade, overview or deadline sub-pipeline   *)
(* runs; process_producing returns Ok and process_batch goes on with the   *)
(* next account of the batch.                                              *)
(***************************************************************************)
C6_AccountAbort ==
    (acct.device_token # None /\ (acct.res.user = "err" \/ acct.res.courses = "err")) =>
        /\ acct.done
        /\ acct.res.user = "err" =>
               \A k \in Kinds \ {"user"} :
                   acct.res[k] = "none" /\ CallsOf(alog, k) = <<>>
        /\ acct.res.courses = "err" =>
               \A k \in {"grades", "overview", "deadlines"} :
                   acct.res[k] = "none" /\ CallsOf(alog, k) = <<>>
        /\ PassOver =>
               /\ gb.process_batch # "err"
               /\ Len(processed) < Len(batch) =>
                      /\ pc = "batch"
                      /\ idx = Len(processed) + 1
                      /\ gb.process_batch = "running"
               /\ Len(processed) = Len(batch) =>
                      /\ pc = "idle"
                      /\ gb.process_batch = "ok"

\* produce_course failed for the first account of a batch and the second one is next
C6_Witness ==
    /\ acct.device_token # None
    /\ acct.res.user = "ok"
    /\ acct.res.courses = "err"
    /\ PassOver
    /\ Len(processed) < Len(batch)
    /\ pc = "batch"
    /\ idx = Len(processed) + 1

(***************************************************************************)
(* C7. Batch continuation for every kind of account: when process_batch    *)
(* has returned, every account of the batch was taken up, whatever failed  *)
(* for the accounts before it.                                             *)
(***************************************************************************)
C7_BatchContinues ==
    (pc = "idle" /\ gb.process_batch \in {"ok", "err"}) =>
        processed = [i \in 1..Len(batch) |-> batch[i].token]

\* what the deadline sub-pipeline has to notify: the external deadlines of the
\* courses that were not stored when it was invoked
NewDeadlines ==
    LET stored == IF last.pre.deadlines = Absent THEN <<>> ELSE last.pre.deadlines[1]
    IN SelectSeq(ExternalDeadlines(last.e, last.cs),
                 LAMBDA d : d \notin Range(stored))

(***************************************************************************)
(* C8. Sibling independence: once the user and course sub-pipelines of an  *)
(* account succeeded, produce_grade, produce_grade_overview and            *)
(* produce_deadline are each invoked exactly once in the pass, whichever   *)
(* of them fails; the ones that succeed have notified and persisted.       *)
(***************************************************************************)
C8_SiblingIndependence ==
    (acct.device_token # None /\ acct.res.user = "ok" /\ acct.res.courses = "ok") =>
        /\ ~acct.done => pc \in {"grade", "overview", "deadline"}
        /\ pc = "overview" => Len(CallsOf(alog, "grades")) = 1
        /\ pc = "deadline" =>
               Len(CallsOf(alog, "grades")) = 1 /\ Len(CallsOf(alog, "overview")) = 1
        /\ acct.done =>
               /\ \A k \in {"grades", "overview", "deadlines"} :
                      Len(CallsOf(alog, k)) = 1 /\ acct.res[k] \in {"ok", "err"}
               /\ acct.res.overview = "ok" =>
                      LET rows == store[acct.token].overview[1]
                          e == ext[acct.token]
                      IN \A i \in 1..Len(e.overview) : \E j \in 1..Len(rows) :
                             /\ rows[j].courseid = e.overview[i].courseid
                             /\ rows[j].grade = e.overview[i].grade
               /\ acct.res.deadlines = "ok" =>
                      /\ Len(NotifsOf(alog, "deadlines")) = Len(NewDeadlines)
                      /\ NewDeadlines # <<>> =>
                             store[acct.token].deadlines =
                                 Some(sort_deadlines(ExternalDeadlines(last.e, last.cs)))

\* grades and overview failed, the deadlines were still notified and persisted
C8_Witness ==
    /\ acct.device_token # None
    /\ acct.done
    /\ acct.res.user = "ok"
    /\ acct.res.courses = "ok"
    /\ acct.res.grades = "err"
    /\ acct.res.overview = "err"
    /\ acct.res.deadlines = "ok"
    /\ NotifsOf(alog, "deadlines") # <<>>
    /\ \E i \in 1..Len(alog) : alog[i].ev = "save" /\ alog[i].kind = "deadlines"

\* the snapshots a full fetch of the external data e gives
FreshSnapshot(e) ==
    [user |-> Some(e.user),
     courses |-> Some(e.courses),
     grades |-> Some(ExternalGrades(e, e.courses)),
     overview |-> Some(sort_grades_overview(
                      [i \in 1..Len(e.overview) |-> AnnotateOverview(e.overview[i], e.courses)])),
     deadlines |-> Some(sort_deadlines(ExternalDeadlines(e, e.courses)))]

(***************************************************************************)
(* C9. Notification-free resync: for an account without device token no    *)
(* notification is produced and no sub-pipeline with a comparator runs;    *)
(* when no call fails, user, courses, grades, overview and deadlines are   *)
(* overwritten with the freshly fetched data, in that order.               *)
(***************************************************************************)
C9_Resync ==
    (acct.token # None /\ acct.device_token = None) =>
        /\ Notifs(alog) = <<>>
        /\ \A k \in Kinds : CallsOf(alog, k) = <<>> /\ acct.res[k] = "none"
        /\ acct.done
        /\ acct.res.resync = "ok" =>
               /\ KindsOf(Updates(alog)) = <<"user", "courses", "grades", "overview", "deadlines">>
               /\ KindsOf(Saves(alog)) = <<"user", "courses", "grades", "overview", "deadlines">>
               /\ store[acct.token] = FreshSnapshot(last.e)

\* a resync overwrote snapshots that differed from the external data
C9_Witness ==
    /\ acct.token # None
    /\ acct.device_token = None
    /\ acct.res.resync = "ok"
    /\ last.op = "fetch_and_update_data"
    /\ \A k \in Kinds \ {"user"} : last.pre[k] # store[acct.token][k]
    /\ store[acct.token] = FreshSnapshot(ext[acct.token])

\* the last call of get_batches found no document and reset the offset
EmptyCall == gb.ret = "ok" /\ ~gb.has_documents

(***************************************************************************)
(* C10. Batch wrap-around: repeated calls of get_batches eventually reach  *)
(* a call whose cursor yields no document; that call sets the offset to 0  *)
(* and does not invoke process_batch, and the call after it returns the    *)
(* first page. Every other call advances the offset by the number of       *)
(* accounts it placed in the batch.                                        *)
(***************************************************************************)
C10_WrapAround ==
    /\ [][gb'.seq # gb.seq =>
            /\ (gb'.ret = "ok" /\ ~gb'.has_documents) =>
                   /\ skip' = 0
                   /\ gb'.process_batch = "none"
                   /\ pc' = "idle"
                   /\ gb'.skip0 >= Len(registry)
            /\ ~(gb'.ret = "ok" /\ ~gb'.has_documents) =>
                   skip' = skip + gb'.placed
            /\ (gb'.ret = "ok" /\ gb'.has_documents) =>
                   /\ gb'.placed >= 1
                   /\ gb'.process_batch = "running"
            /\ (EmptyCall /\ gb'.ret = "ok" /\ registry # <<>>) =>
                   /\ batch' = Page(registry, Limit, 0)
                   /\ skip' = Len(batch')
                   /\ batch' # <<>>]_vars
    /\ []<>(EmptyCall /\ skip = 0)

\* the offset went over the whole registry and was reset
C10_Witness ==
    /\ EmptyCall
    /\ skip = 0
    /\ gb.skip0 = Len(registry)
    /\ pc = "idle"

\* the sub-pipelines that diff external data against a stored list
DiffKinds == {"courses", "grades", "overview", "deadlines"}

OpOf(kind) ==
    CASE kind = "courses" -> "produce_course"
      [] kind = "grades" -> "produce_grade"
      [] kind = "overview" -> "produce_grade_overview"
      [] kind = "deadlines" -> "produce_deadline"

\* the number of external items the last invocation of the kind had to look at
ExternalCount(kind) ==
    CASE kind = "courses" -> Len(last.e.courses)
      [] kind = "grades" -> Len(GradeEntries(ExternalGrades(last.e, last.cs)))
      [] kind = "overview" -> Len(last.e.overview)
      [] kind = "deadlines" -> Len(ExternalDeadlines(last.e, last.cs))

(***************************************************************************)
(* C11. DataIsEmpty is an empty baseline for every resource kind: a        *)
(* diffing sub-pipeline whose stored get returns DataIsEmpty does not      *)
(* fail, reports every external item as new and persists the snapshot.     *)
(***************************************************************************)
C11_EmptyBaseline ==
    \A kind \in DiffKinds :
        (last.op = OpOf(kind) /\ last.pre[kind] = Absent /\ last.err # "Error") =>
            /\ last.ok
            /\ Len(NotifsOf(last.log, kind)) = ExternalCount(kind)
            /\ ExternalCount(kind) > 0 => store[last.token][kind] # Absent

(***************************************************************************)
(* C13. Registration is all-or-nothing: when register_user returns an      *)
(* error, the registry and the five snapshots of the token are as they     *)
(* were before the call.                                                   *)
(***************************************************************************)
C13_AllOrNothing ==
    (last.op = "register_user" /\ ~last.ok) =>
        /\ registry = last.reg
        /\ store[last.token] = last.pre

\* no token has two documents in the registry
NoDuplicates(reg) ==
    \A i, j \in 1..Len(reg) : reg[i].token = reg[j].token => i = j

(***************************************************************************)
(* C14. Registration outcome: register_user succeeds only for a token the  *)
(* provider accepts and the registry does not hold, and then the token and *)
(* the five snapshots are stored; a rejected or registered token gets an   *)
(* error, so no token is ever registered twice.                            *)
(***************************************************************************)
C14_RegistrationOutcome ==
    /\ NoDuplicates(registry)
    /\ last.op = "register_user" =>
           /\ last.ok =>
                  /\ last.token \in Accepted
                  /\ ~InRegistry(last.reg, last.token)
                  /\ Len(registry) = Len(last.reg) + 1
                  /\ registry[Len(registry)].token = last.token
                  /\ SubSeq(registry, 1, Len(last.reg)) = last.reg
                  /\ store[last.token] = FreshSnapshot(last.e)
           /\ (last.token \notin Accepted \/ InRegistry(last.reg, last.token)) =>
                  /\ ~last.ok
                  /\ registry = last.reg
                  /\ store[last.token] = last.pre
                  /\ last.err \in {"Error", "InvalidToken", "AccountAlreadyExists"}
           /\ last.err = "InvalidToken" => last.token \notin Accepted
           /\ last.err = "AccountAlreadyExists" => InRegistry(last.reg, last.token)

\* a second registration of a token is refused while the registry holds it
C14_Witness ==
    /\ last.op = "register_user"
    /\ last.err = "AccountAlreadyExists"
    /\ InRegistry(registry, last.token)
    /\ store[last.token] = FreshSnapshot(last.e)
    /\ Len(registry) = 1

(***************************************************************************)
(* C12. Zero-grade course: in produce_grade a course for which the         *)
(* provider returns zero grades emits no notification and does not by      *)
(* itself cause a forced resync: when the stored grades are the external   *)
(* ones, there is no update_grades call.                                   *)
(***************************************************************************)
C12_ZeroGradeCourse ==
    (/\ last.op = "produce_grade"
     /\ last.ok
     /\ \E i \in 1..Len(last.cs) : TaggedGrades(last.e, last.cs[i]) = <<>>
     /\ last.pre.grades = Some(ExternalGrades(last.e, last.cs))) =>
        /\ Notifs(last.log) = <<>>
        /\ Updates(last.log) = <<>>

\* the external grade entry x is new or changed with respect to the stored grades
GradeDiffers(stored, x) ==
    LET same == StoredMatches(stored, x)
    IN \/ same = <<>>
       \/ same[1].item.percentageformatted # x.item.percentageformatted

(***************************************************************************)
(* C15. Self-healing after a failed pass: a sub-pipeline that fails before *)
(* it emitted the notification for a new or changed item leaves that item  *)
(* out of the stored snapshot, so that a later pass still finds and        *)
(* notifies it; a failure never absorbs a change silently. Stated for the  *)
(* grade sub-pipeline.                                                     *)
(***************************************************************************)
C15_SelfHealing ==
    (last.op = "produce_grade" /\ ~last.ok /\ last.pre.grades # Absent) =>
        LET external == GradeEntries(ExternalGrades(last.e, last.cs))
        IN \A i \in 1..Len(external) :
               (/\ GradeDiffers(last.pre.grades[1], external[i])
                /\ ~GradeNotified(external[i])) =>
                   GradeDiffers(store[last.token].grades[1], external[i])

\* the stored grade list of the account differs from the external grade set
StaleGrades(t) == store[t].grades # Some(ExternalGrades(ext[t], ext[t].courses))

(***************************************************************************)
(* C16. Stale grades are eventually corrected: whenever the stored grade   *)
(* list of an account with a device token differs from the external grade  *)
(* set, it equals the external grade set after finitely many passes.       *)
(***************************************************************************)
C16_StaleCorrected == StaleGrades("t1") ~> ~StaleGrades("t1")

\* the reorderings of a list
Reorderings(s) ==
    {[i \in 1..Len(s) |-> s[p[i]]] : p \in Permutations(1..Len(s))}

\* what an invocation did: the set of its notifications and whether it persisted
Outcome(m) == <<Range(Notifs(m.log)), Saves(m.log) # <<>>, m.ok>>

\* produce_grade_overview of the last invocation with the provider answering pe and
\* the store holding ps
OverviewOutcome(pe, ps) ==
    Outcome(produce_grade_overview(
                Start([last.pre EXCEPT !.overview = Some(ps)], 0),
                [last.e EXCEPT !.overview = pe], acct.device_token, last.cs))

\* produce_deadline of the last invocation with the provider answering pd and the
\* store holding ps
DeadlineOutcome(pd, ps) ==
    Outcome(produce_deadline(
                Start([last.pre EXCEPT !.deadlines = Some(ps)], 0),
                [last.e EXCEPT !.deadlines = pd], acct.device_token, last.cs))

TimesNotified(c) ==
    Len(SelectSeq(alog, LAMBDA x : x.ev = "notify" /\ x.kind = "courses"
                                   /\ x.body = <<CourseName(c)>>))

(***************************************************************************)
(* C18. Single-poller assumption: with one poller and no failures no       *)
(* newly added course is notified more than once (a course the LMS         *)
(* withdraws and lists again, which takes two external changes, is newly   *)
(* added again); with two pollers on the same account there is an          *)
(* interleaving in which both read the stored course list before either    *)
(* overwrites it, and the same new course is notified twice (the witness). *)
(***************************************************************************)
C18_SinglePoller ==
    Len(pollers) = 1 => \A c \in CourseIds : TimesNotified(c) <= 1 + (changes \div 2)

\* two pollers: both have notified the same new course
C18_Witness ==
    /\ Len(pollers) = 2
    /\ \E c \in CourseIds : TimesNotified(c) = 2
    /\ changes = 0

\* positions of the events of a log
Before(log, i, evs) == \E j \in 1..(i - 1) : log[j].ev \in evs

After(log, i, evs) == \E j \in (i + 1)..Len(log) : log[j].ev \in evs

\* the external resource is requested before the stored one is read
ExternalFirst(log) ==
    \A i \in 1..Len(log) : log[i].ev = "find" => Before(log, i, {"fetch"})

\* the stored resource is read before the external one is requested
StoredFirst(log) ==
    \A i \in 1..Len(log) : log[i].ev = "fetch" => Before(log, i, {"find"})

\* no overwrite without an earlier notification, none before a read of the stored
\* resource or a notification, at most one, and one whenever something was notified
\* and nothing failed
NotifyThenPersist(log, ok) ==
    /\ \A i \in 1..Len(log) :
           log[i].ev = "save" => /\ Before(log, i, {"notify"})
                                 /\ ~After(log, i, {"find", "notify"})
    /\ Len(Saves(log)) <= 1
    /\ (ok /\ Notifs(log) # <<>>) => Len(Saves(log)) = 1

\* overwrites may come first and without a notification, but whatever was notified
\* is followed by exactly one overwrite when nothing failed
PersistAfterNotify(log, ok) ==
    (ok /\ Notifs(log) # <<>>) =>
        \E i \in 1..Len(log) :
            /\ log[i].ev = "notify"
            /\ ~After(log, i, {"notify"})
            /\ Len(Saves(SubSeq(log, i + 1, Len(log)))) = 1
            /\ log[Len(log)].ev = "save"

DiffOps == {OpOf(k) : k \in DiffKinds}

StageOrder == <<"user", "courses", "grades", "overview", "deadlines">>

StageNo(kind) == CHOOSE i \in 1..Len(StageOrder) : StageOrder[i] = kind

\* the number of sub-pipelines that have started when the poller is at position p
Started(p) ==
    CASE p = "course" -> 1
      [] p = "grade" -> 2
      [] p = "overview" -> 3
      [] p = "deadline" -> 4

InAccount == pc \in {"course", "grade", "overview", "deadline"}

\* the accounts taken up so far are the first ones of the batch, in batch order
BatchOrder ==
    /\ Len(processed) <= Len(batch)
    /\ \A i \in 1..Len(processed) : processed[i] = batch[i].token
    /\ pc = "batch" => Len(processed) = idx - 1
    /\ InAccount => Len(processed) = idx /\ acct.token = batch[idx].token

\* the sub-pipelines of the account under way have started in the stated order, each
\* after everything the previous one did
StageSequence ==
    LET calls == SelectSeq(alog, LAMBDA x : x.ev = "call")
    IN /\ \A i, j \in 1..Len(alog) :
              i < j => StageNo(alog[i].kind) <= StageNo(alog[j].kind)
       /\ \E n \in 0..Len(StageOrder) : KindsOf(calls) = SubSeq(StageOrder, 1, n)
       /\ InAccount => Len(calls) = Started(pc)
       /\ (acct.device_token # None /\ acct.done) => Len(calls) \in {1, 2, 5}
       /\ acct.device_token # None =>
              \A i \in 1..Len(alog) :
                  \E j \in 1..i : alog[j].ev = "call" /\ alog[j].kind = alog[i].kind

\* produce_course hands its result to the three sub-pipelines that follow: the grades
\* and the overview get the list as returned, the deadlines the courses of it that
\* are not past
CourseListFlow ==
    /\ (pc = "course" /\ pc' = "grade") =>
           /\ last'.op = "produce_course"
           /\ courses' = last'.e.courses
    /\ pc = "grade" =>
           /\ last'.op = "produce_grade"
           /\ last'.cs = courses
           /\ courses' = courses
           /\ pc' = "overview"
    /\ pc = "overview" =>
           /\ last'.op = "produce_grade_overview"
           /\ last'.cs = courses
           /\ courses' = courses
           /\ pc' = "deadline"
    /\ pc = "deadline" =>
           /\ last'.op = "produce_deadline"
           /\ last'.cs = delete_past_courses(courses)
    /\ InAccount => last'.token = acct.token /\ acct'.token = acct.token

(***************************************************************************)
(* C20. Strict sequential order: within a batch the accounts are processed *)
(* one at a time in batch order; for an account with a device token the    *)
(* sub-pipelines start in the order user, courses, grades, grade overview, *)
(* deadlines, each after the previous one has returned; grades, grade      *)
(* overview and deadlines use the course list that produce_course returned *)
(* in the same pass (the deadlines its courses that are not past).         *)
(***************************************************************************)
C20_SequentialOrder == [](BatchOrder /\ StageSequence) /\ [][CourseListFlow]_vars

\* the second account of a batch is at its deadlines, which get a shorter list than
\* the grades did
C20_Witness ==
    /\ pc = "deadline"
    /\ idx = 2
    /\ last.op = "produce_grade_overview"
    /\ delete_past_courses(courses) # courses

\* the ids and names of the past courses of a course list
PastIds(cs) == {cs[i].id : i \in {j \in 1..Len(cs) : cs[j].past}}

PastNames(cs) == {CourseName(c) : c \in PastIds(cs)}

\* the course ids the provider was asked about for a resource kind
FetchedIds(log, kind) ==
    {log[i].body[1] : i \in {j \in 1..Len(log) :
                                 /\ log[j].ev = "fetch"
                                 /\ log[j].kind = kind
                                 /\ log[j].body # <<>>}}

(***************************************************************************)
(* C21. Past-course filtering: produce_grade and produce_grade_overview    *)
(* are given the full external course list, past courses included (the     *)
(* grades of every course, past or not, are requested); produce_deadline   *)
(* is given the non-past courses only, and in a notifying pass no deadline *)
(* of a past course is requested from the provider, notified, or written   *)
(* by update_deadlines.                                                    *)
(***************************************************************************)
C21_PastCourses ==
    LET all == last.e.courses
        stored == store[last.token].deadlines
    IN /\ last.op \in {"produce_grade", "produce_grade_overview"} => last.cs = all
       /\ (last.op = "produce_grade" /\ last.ok) =>
              FetchedIds(last.log, "grades") = CourseIdsOf(all)
       /\ last.op = "produce_deadline" =>
              /\ last.cs = delete_past_courses(all)
              /\ FetchedIds(last.log, "deadlines") \cap PastIds(all) = {}
              /\ \A i \in 1..Len(last.log) :
                     (last.log[i].ev = "notify" /\ last.log[i].kind = "deadlines") =>
                         last.log[i].body[2] \notin PastNames(all)
              /\ (\E i \in 1..Len(last.log) : last.log[i].ev = "save") =>
                     /\ stored # Absent
                     /\ \A i \in 1..Len(stored[1]) :
                            stored[1][i].coursename \notin PastNames(all)
                     /\ stored[1] = sort_deadlines(ExternalDeadlines(last.e, last.cs))

\* produce_deadline has notified and overwritten for an account that has a past
\* course with an external deadline
C21_Witness ==
    /\ last.op = "produce_deadline"
    /\ last.ok
    /\ NotifsOf(last.log, "deadlines") # <<>>
    /\ Saves(last.log) # <<>>
    /\ \E c \in PastIds(last.e.courses) : last.e.deadlines[c] # <<>>

\* poller p returns from produce_course in this step
RaceReturns(p) == pollers[p].pc \in {"stored", "update"} /\ pollers'[p].pc = "idle"

(***************************************************************************)
(* C22. Course persist is a full replace by the diffed list: produce_course *)
(* overwrites the stored course list if and only if it found a new course, *)
(* and otherwise leaves it unchanged; when it overwrites, the stored list   *)
(* afterwards is the external list that was diffed and that produce_course *)
(* returns, even if the provider's answer changes between the calls. One   *)
(* poller only.                                                            *)
(***************************************************************************)
C22_FullReplace ==
    [][Len(pollers) = 1 =>
          LET t == RaceAccount.token
              p == 1
              returned == pollers[p].external_courses
              stored == store[t].courses[1]
          IN /\ (RaceReturns(p) /\ compare_courses(returned, stored) = <<>>) =>
                    store'[t] = store[t]
             /\ (RaceReturns(p) /\ compare_courses(returned, stored) # <<>>) =>
                    store'[t].courses = Some(returned)]_vars

\* the stored deadlines the last invocation found (none for DataIsEmpty)
StoredDeadlines == IF last.pre.deadlines = Absent THEN <<>> ELSE last.pre.deadlines[1]

\* how often the last invocation notified the deadline d
DeadlineNotified(d) ==
    Len(SelectSeq(NotifsOf(last.log, "deadlines"),
                  LAMBDA x : x.title = "New deadline" /\ x.body = <<d.name, d.coursename>>))

\* the position of the first event of the kind ev in a log, 0 if there is none
FirstOf(log, ev) ==
    IF \E i \in 1..Len(log) : log[i].ev = ev
    THEN CHOOSE i \in 1..Len(log) : log[i].ev = ev /\ ~Before(log, i, {ev})
    ELSE 0

(***************************************************************************)
(* C23. Deadline persist: produce_deadline emits one notification per      *)
(* external deadline (of the courses it is given) that is absent from the  *)
(* stored deadline list and nothing else, so nothing for a course whose    *)
(* external list is empty; it overwrites the stored deadlines at most      *)
(* once, after all courses were iterated, if and only if a new deadline    *)
(* was found in some course, with the external deadlines of all its        *)
(* courses; after an error at a later course the deadlines notified for    *)
(* earlier courses are not persisted.                                      *)
(***************************************************************************)
C23_DeadlinePersist ==
    last.op = "produce_deadline" =>
        LET log == last.log
            sent == NotifsOf(log, "deadlines")
            external == ExternalDeadlines(last.e, last.cs)
            update == FirstOf(log, "update")
            loop == IF update = 0 THEN log ELSE SubSeq(log, 1, update - 1)
        IN /\ Notifs(log) = sent
           /\ \A i \in 1..Len(sent) :
                  /\ sent[i].to = acct.device_token
                  /\ \E d \in Range(NewDeadlines) :
                         sent[i].title = "New deadline" /\ sent[i].body = <<d.name, d.coursename>>
           /\ \A d \in Range(external) : DeadlineNotified(d) <= 1
           /\ last.ok => Len(sent) = Len(NewDeadlines)
           /\ \A c \in CourseIdsOf(last.cs) :
                  last.e.deadlines[c] = <<>> =>
                      \A i \in 1..Len(sent) : sent[i].body[2] # CourseName(c)
           /\ Len(Saves(log)) <= 1
           /\ Len(Updates(log)) <= 1
           /\ update # 0 =>
                  /\ sent # <<>>
                  /\ ~After(log, update, {"notify", "find"})
                  /\ FetchedIds(loop, "deadlines") = CourseIdsOf(last.cs)
           /\ last.ok => (Saves(log) # <<>> <=> NewDeadlines # <<>>)
           /\ Saves(log) # <<>> =>
                  /\ log[Len(log)].ev = "save"
                  /\ store[last.token].deadlines = Some(sort_deadlines(external))
           /\ Saves(log) = <<>> => store[last.token].deadlines = last.pre.deadlines
           /\ ~last.ok => Saves(log) = <<>>

\* the provider failed at the second course after a deadline of the first course
\* had been notified
C23_Witness ==
    /\ last.op = "produce_deadline"
    /\ ~last.ok
    /\ NotifsOf(last.log, "deadlines") # <<>>
    /\ Updates(last.log) = <<>>
    /\ last.log[Len(last.log)].ev = "fetch"
    /\ last.log[Len(last.log)].body = <<2>>
    /\ store[last.token].deadlines = last.pre.deadlines

\* how often x occurs in the sequence s
Count(x, s) == Cardinality({i \in 1..Len(s) : s[i] = x})

(***************************************************************************)
(* C24. Pass coverage under interleaved registry changes: when a pass over *)
(* the registry is complete (get_batches has reset the offset to 0), every *)
(* account that was registered during the whole pass was placed in exactly *)
(* one batch and taken up by process_batch exactly once, also when         *)
(* delete_one_user and register_user calls for other accounts came in      *)
(* between the calls of get_batches.                                       *)
(***************************************************************************)
C24_PassCoverage ==
    (pass.on /\ pass.complete) =>
        \A t \in pass.stayed :
            /\ Count(t, pass.placed) = 1
            /\ Count(t, pass.taken) = 1

====
